---- MODULE Spec2Model ----
(***************************************************************************)
(* A model of the GPT-SoVITS Go SDK client (src/api.go).                   *)
(*                                                                         *)
(* Text is modelled as a sequence of tokens.  A token is either one        *)
(* character that some conversion in the program or on the wire treats     *)
(* specially, or a chunk of ordinary characters (letters, digits, '.',     *)
(* '/', '_', ':') that every conversion copies unchanged.  Byte slices     *)
(* are sequences of integers in 0..255.                                    *)
(***************************************************************************)
EXTENDS Integers, Sequences, FiniteSets, TLC

(***************************************************************************)
(* Bounds of the model.                                                    *)
(***************************************************************************)
MaxBodyLen == 2
MaxParams == 2

(***************************************************************************)
(* Special characters.                                                     *)
(***************************************************************************)
DQ == "\""
BS == "\\"
LF == "<LF>"
BadByte == "<0xFF>"
Replacement == "<U+FFFD>"

\* Bytes < 0x20 and 0x7f: net/url refuses a URL that holds one.
IsCTL(ch) == ch = LF

\* Text in which every byte sequence is well-formed UTF-8.
ValidUTF8(s) == \A i \in 1..Len(s) : s[i] # BadByte

(***************************************************************************)
(* Sequence helpers.                                                       *)
(***************************************************************************)
Contains(s, ch) == \E i \in 1..Len(s) : s[i] = ch

\* Index of the first ch in s, or 0.
IndexOf(s, ch) ==
    IF Contains(s, ch) THEN CHOOSE i \in 1..Len(s) : s[i] = ch /\ \A j \in 1..(i - 1) : s[j] # ch
    ELSE 0

\* strings.Cut: the text before and after the first ch.
Cut(s, ch) ==
    LET i == IndexOf(s, ch) IN
    IF i = 0 THEN [before |-> s, after |-> <<>>, found |-> FALSE]
    ELSE [before |-> SubSeq(s, 1, i - 1), after |-> SubSeq(s, i + 1, Len(s)), found |-> TRUE]

RECURSIVE Split(_, _)
Split(s, ch) ==
    LET c == Cut(s, ch) IN
    IF c.found THEN <<c.before>> \o Split(c.after, ch) ELSE <<s>>

(***************************************************************************)
(* The request structures and their JSON keys (struct tags).               *)
(***************************************************************************)
\* TTSRequest with the tag of PromptText copied to PromptLang.
TTSRequestFields_SharedKey ==
    << [name |-> "Text",              key |-> "text",                kind |-> "string"],
       [name |-> "TextLang",          key |-> "text_lang",           kind |-> "string"],
       [name |-> "RefAudioPath",      key |-> "ref_audio_path",      kind |-> "string"],
       [name |-> "AuxRefAudioPaths",  key |-> "aux_ref_audio_paths", kind |-> "strings"],
       [name |-> "PromptText",        key |-> "prompt_text",         kind |-> "string"],
       [name |-> "PromptLang",        key |-> "prompt_text",         kind |-> "string"],
       [name |-> "TopK",              key |-> "top_k",               kind |-> "int"],
       [name |-> "TopP",              key |-> "top_p",               kind |-> "float"],
       [name |-> "Temperature",       key |-> "temperature",         kind |-> "float"],
       [name |-> "TextSplitMethod",   key |-> "text_split_method",   kind |-> "string"],
       [name |-> "BatchSize",         key |-> "batch_size",          kind |-> "int"],
       [name |-> "BatchThreshold",    key |-> "batch_threshold",     kind |-> "float"],
       [name |-> "SplitBucket",       key |-> "split_bucket",        kind |-> "bool"],
       [name |-> "SpeedFactor",       key |-> "speed_factor",        kind |-> "float"],
       [name |-> "FragmentInterval",  key |-> "fragment_interval",   kind |-> "float"],
       [name |-> "Seed",              key |-> "seed",                kind |-> "int"],
       [name |-> "MediaType",         key |-> "media_type",          kind |-> "string"],
       [name |-> "StreamingMode",     key |-> "streaming_mode",      kind |-> "bool"],
       [name |-> "ParallelInfer",     key |-> "parallel_infer",      kind |-> "bool"],
       [name |-> "RepetitionPenalty", key |-> "repetition_penalty",  kind |-> "float"],
       [name |-> "SampleSteps",       key |-> "sample_steps",        kind |-> "int"],
       [name |-> "SuperSampling",     key |-> "super_sampling",      kind |-> "bool"] >>

TTSRequestFields ==
    << [name |-> "Text",              key |-> "text",                kind |-> "string"],
       [name |-> "TextLang",          key |-> "text_lang",           kind |-> "string"],
       [name |-> "RefAudioPath",      key |-> "ref_audio_path",      kind |-> "string"],
       [name |-> "AuxRefAudioPaths",  key |-> "aux_ref_audio_paths", kind |-> "strings"],
       [name |-> "PromptText",        key |-> "prompt_text",         kind |-> "string"],
       [name |-> "PromptLang",        key |-> "prompt_lang",         kind |-> "string"],
       [name |-> "TopK",              key |-> "top_k",               kind |-> "int"],
       [name |-> "TopP",              key |-> "top_p",               kind |-> "float"],
       [name |-> "Temperature",       key |-> "temperature",         kind |-> "float"],
       [name |-> "TextSplitMethod",   key |-> "text_split_method",   kind |-> "string"],
       [name |-> "BatchSize",         key |-> "batch_size",          kind |-> "int"],
       [name |-> "BatchThreshold",    key |-> "batch_threshold",     kind |-> "float"],
       [name |-> "SplitBucket",       key |-> "split_bucket",        kind |-> "bool"],
       [name |-> "SpeedFactor",       key |-> "speed_factor",        kind |-> "float"],
       [name |-> "FragmentInterval",  key |-> "fragment_interval",   kind |-> "float"],
       [name |-> "Seed",              key |-> "seed",                kind |-> "int"],
       [name |-> "MediaType",         key |-> "media_type",          kind |-> "string"],
       [name |-> "StreamingMode",     key |-> "streaming_mode",      kind |-> "bool"],
       [name |-> "ParallelInfer",     key |-> "parallel_infer",      kind |-> "bool"],
       [name |-> "RepetitionPenalty", key |-> "repetition_penalty",  kind |-> "float"],
       [name |-> "SampleSteps",       key |-> "sample_steps",        kind |-> "int"],
       [name |-> "SuperSampling",     key |-> "super_sampling",      kind |-> "bool"] >>

\* ControlRequest with another key in its tag.
ControlRequestFields_Cmd == << [name |-> "Command", key |-> "cmd", kind |-> "string"] >>

ControlRequestFields == << [name |-> "Command", key |-> "command", kind |-> "string"] >>

SetWeightsRequestFields == << [name |-> "WeightsPath", key |-> "weights_path", kind |-> "string"] >>

FieldNames(fields) == {fields[i].name : i \in 1..Len(fields)}

\* A nil slice and a slice of strings.
NilSlice == [isNil |-> TRUE, elems |-> <<>>]
Slice(elems) == [isNil |-> FALSE, elems |-> elems]

\* The zero value of a Go type.
ZeroOf(kind) ==
    CASE kind = "string" -> <<>>
      [] kind = "strings" -> NilSlice
      [] kind = "int" -> 0
      [] kind = "float" -> "0"
      [] kind = "bool" -> FALSE

(***************************************************************************)
(* encoding/json as the program uses it: json.Marshal of a struct writes   *)
(* one member per field, in the order of the struct, under the key of the  *)
(* field's tag.  JSON text is modelled as the sequence of its members; a   *)
(* string literal is the sequence of the characters between its quotes.    *)
(***************************************************************************)
IntVals == -1 .. 32

JString(chars) == [t |-> "string", chars |-> chars, lit |-> "", flag |-> FALSE, elems |-> <<>>]
JNumber(lit) == [t |-> "number", chars |-> <<>>, lit |-> lit, flag |-> FALSE, elems |-> <<>>]
JBool(b) == [t |-> "bool", chars |-> <<>>, lit |-> "", flag |-> b, elems |-> <<>>]
JNull == [t |-> "null", chars |-> <<>>, lit |-> "", flag |-> FALSE, elems |-> <<>>]
JArray(elems) == [t |-> "array", chars |-> <<>>, lit |-> "", flag |-> FALSE, elems |-> elems]

\* The characters json.Marshal writes for one character of a string
\* (HTML escaping is on; bytes that are not UTF-8 become U+FFFD).
EscapeChar(ch) ==
    CASE ch = DQ -> <<BS, DQ>>
      [] ch = BS -> <<BS, BS>>
      [] ch = LF -> <<BS, "n">>
      [] ch = "<" -> <<BS, "u003c">>
      [] ch = "&" -> <<BS, "u0026">>
      [] ch = BadByte -> <<BS, "ufffd">>
      [] OTHER -> <<ch>>

RECURSIVE Quote(_)
Quote(s) == IF s = <<>> THEN <<>> ELSE EscapeChar(Head(s)) \o Quote(Tail(s))

\* The character a JSON escape stands for (the token after the backslash).
UnescapeChar(code) ==
    CASE code = DQ -> DQ
      [] code = BS -> BS
      [] code = "n" -> LF
      [] code = "u003c" -> "<"
      [] code = "u0026" -> "&"
      [] code = "ufffd" -> Replacement
      [] OTHER -> Replacement

RECURSIVE Unquote(_)
Unquote(s) ==
    IF s = <<>> THEN <<>>
    ELSE IF Head(s) = BS /\ Len(s) >= 2 THEN <<UnescapeChar(s[2])>> \o Unquote(SubSeq(s, 3, Len(s)))
    ELSE <<Head(s)>> \o Unquote(Tail(s))

\* json.Marshal refuses NaN and the infinities.
Unsupported(kind, v) == kind = "float" /\ v \in {"NaN", "+Inf", "-Inf"}

MarshalValue(kind, v) ==
    CASE kind = "string" -> JString(Quote(v))
      [] kind = "strings" ->
            IF v.isNil THEN JNull
            ELSE JArray([i \in 1..Len(v.elems) |-> Quote(v.elems[i])])
      [] kind = "int" -> JNumber(ToString(v))
      [] kind = "float" -> JNumber(v)
      [] kind = "bool" -> JBool(v)

\* json.Marshal(v) for a struct v with the given fields: (data, err).
Marshal(fields, v) ==
    IF \E i \in 1..Len(fields) : Unsupported(fields[i].kind, v[fields[i].name])
    THEN [err |-> TRUE, data |-> <<>>]
    ELSE [err |-> FALSE,
          data |-> [i \in 1..Len(fields) |->
                      [key |-> fields[i].key,
                       val |-> MarshalValue(fields[i].kind, v[fields[i].name])]]]

ParseInt(lit) ==
    IF \E n \in IntVals : ToString(n) = lit
    THEN CHOOSE n \in IntVals : ToString(n) = lit
    ELSE 0

\* The value json.Unmarshal stores in a field of the given type; a JSON
\* null, or a value of another type, leaves the field as it was.
UnmarshalValue(kind, jv, old) ==
    CASE kind = "string" /\ jv.t = "string" -> Unquote(jv.chars)
      [] kind = "strings" /\ jv.t = "array" ->
            Slice([i \in 1..Len(jv.elems) |-> Unquote(jv.elems[i])])
      [] kind = "int" /\ jv.t = "number" -> ParseInt(jv.lit)
      [] kind = "float" /\ jv.t = "number" -> jv.lit
      [] kind = "bool" /\ jv.t = "bool" -> jv.flag
      [] OTHER -> old

\* The member json.Unmarshal ends up using for a key: the last one.
Members(data, key) == {i \in 1..Len(data) : data[i].key = key}
LastMember(data, key) == CHOOSE i \in Members(data, key) : \A j \in Members(data, key) : j <= i

\* json.Unmarshal(data, &v) into a zero struct with the given fields.
Unmarshal(fields, data) ==
    [n \in FieldNames(fields) |->
        LET f == CHOOSE i \in 1..Len(fields) : fields[i].name = n IN
        IF Members(data, fields[f].key) = {} THEN ZeroOf(fields[f].kind)
        ELSE UnmarshalValue(fields[f].kind,
                            data[LastMember(data, fields[f].key)].val,
                            ZeroOf(fields[f].kind))]

(***************************************************************************)
(* net/url and net/http as the program uses them.                          *)
(***************************************************************************)
HexDigits ==
    {"0", "1", "2", "3", "4", "5", "6", "7", "8", "9",
     "a", "b", "c", "d", "e", "f", "A", "B", "C", "D", "E", "F"}

\* A '%' that is not followed by two hexadecimal digits.
InvalidEscape(s) ==
    \E i \in 1..Len(s) :
        /\ s[i] = "%"
        /\ ~(i + 2 <= Len(s) /\ s[i + 1] \in HexDigits /\ s[i + 2] \in HexDigits)

\* url.Parse as http.NewRequestWithContext calls it: a control character is
\* refused; the fragment is everything after the first '#' and is unescaped;
\* the query is everything after the first '?' and is kept as written.
\* Path holds scheme, host and path.
ParseURL(raw) ==
    LET f == Cut(raw, "#")
        q == Cut(f.before, "?")
    IN  IF (\E i \in 1..Len(raw) : IsCTL(raw[i])) \/ InvalidEscape(f.after) \/ InvalidEscape(q.before)
        THEN [err |-> TRUE, Path |-> <<>>, ForceQuery |-> FALSE, RawQuery |-> <<>>, Fragment |-> <<>>]
        ELSE [err |-> FALSE,
              Path |-> q.before,
              ForceQuery |-> q.found /\ q.after = <<>>,
              RawQuery |-> q.after,
              Fragment |-> f.after]

NoBody == [present |-> FALSE, data |-> <<>>]
\* bytes.NewBuffer(jsonData)
NewBuffer(jsonData) == [present |-> TRUE, data |-> jsonData]

NoRequest == [Method |-> "", URL |-> ParseURL(<<>>), Header |-> {}, Body |-> NoBody]

\* http.NewRequestWithContext(ctx, method, url, body): (request, err).
NewRequestWithContext(method, url, body) ==
    LET u == ParseURL(url) IN
    IF u.err THEN [err |-> TRUE, req |-> NoRequest]
    ELSE [err |-> FALSE, req |-> [Method |-> method, URL |-> u, Header |-> {}, Body |-> body]]

\* httpReq.Header.Set(key, value)
HeaderSet(req, key, value) ==
    [req EXCEPT !.Header = {h \in @ : h[1] # key} \cup {<<key, value>>}]

\* The request line's target as the transport writes it: the path, then '?'
\* and the raw query when there is one.  The fragment is never sent.
RequestURI(u) ==
    IF u.ForceQuery \/ u.RawQuery # <<>> THEN u.Path \o <<"?">> \o u.RawQuery ELSE u.Path

\* fmt.Errorf(prefix + ": %w", cause), and the errors that report a status:
\* fmt.Errorf(prefix + " %d: %s", resp.StatusCode, string(body)).
Nil == [text |-> "", cause |-> "", status |-> 0, body |-> <<>>]
Errorf(text, cause) == [text |-> text, cause |-> cause, status |-> 0, body |-> <<>>]
StatusErrorf(text, status, body) == [text |-> text, cause |-> "", status |-> status, body |-> body]

(***************************************************************************)
(* The server's side of the wire (the WebAPI the SDK wraps): how it        *)
(* decodes a query string into key/value pairs.  Pairs are separated by    *)
(* '&', key and value by the first '=', '+' stands for a space and %XX     *)
(* for the byte XX.  Bytes that are not ASCII are passed through.          *)
(***************************************************************************)
HexByte(h1, h2) ==
    CASE h1 = "4" /\ h2 = "1" -> "A"
      [] h1 = "2" /\ h2 = "6" -> "&"
      [] OTHER -> Replacement

RECURSIVE PercentDecode(_)
PercentDecode(s) ==
    IF s = <<>> THEN <<>>
    ELSE IF Head(s) = "+" THEN <<" ">> \o PercentDecode(Tail(s))
    ELSE IF Head(s) = "%" /\ Len(s) >= 3 /\ s[2] \in HexDigits /\ s[3] \in HexDigits
         THEN <<HexByte(s[2], s[3])>> \o PercentDecode(SubSeq(s, 4, Len(s)))
    ELSE <<Head(s)>> \o PercentDecode(Tail(s))

RECURSIVE DecodePairs(_)
DecodePairs(parts) ==
    IF parts = <<>> THEN <<>>
    ELSE LET nv == Cut(Head(parts), "=") IN
         (IF Head(parts) = <<>> THEN <<>>
          ELSE << <<PercentDecode(nv.before), PercentDecode(nv.after)>> >>)
         \o DecodePairs(Tail(parts))

\* The key/value pairs the server decodes from a request's query string.
ServerQuery(req) == DecodePairs(Split(req.URL.RawQuery, "&"))

\* The value the server uses for a key (the last one), or "none".
ServerParam(req, key) ==
    LET pairs == ServerQuery(req)
        idx == {i \in 1..Len(pairs) : pairs[i][1] = key}
    IN  IF idx = {} THEN [found |-> FALSE, value |-> <<>>]
        ELSE [found |-> TRUE, value |-> pairs[CHOOSE i \in idx : \A j \in idx : j <= i][2]]

\* The string the server reads under a key of a request's JSON body.
ServerBodyString(req, key) ==
    LET data == req.Body.data IN
    IF ~req.Body.present \/ Members(data, key) = {}
    THEN [found |-> FALSE, value |-> <<>>]
    ELSE [found |-> TRUE, value |-> Unquote(data[LastMember(data, key)].val.chars)]

(***************************************************************************)
(* The client and the state of the program.                                *)
(***************************************************************************)
VARIABLES
    client,     \* the Client every caller shares: BaseURL and HTTPClient
    calls       \* per caller: the operation it is in, its request, the
                \* server's answer and what the operation returned

vars == <<client, calls>>

TimeoutSeconds == 60
StatusOK == 200
StatusNoContent == 204

\* NewClient(baseURL)
NewClient(baseURL) == [BaseURL |-> baseURL, HTTPClient |-> [Timeout |-> TimeoutSeconds]]

\* A *TTSResponse is a sequence of at most one TTSResponse: <<>> is nil.
TTSResponse(status, audio, error) == [StatusCode |-> status, AudioData |-> audio, Error |-> error]

\* What an operation gives back: (*TTSResponse, error) for the three TTS
\* operations, error alone (resp stays <<>>) for the others.
Returned(resp, err) == [resp |-> resp, err |-> err]
NotReturned == Returned(<<>>, Nil)

\* What the network and the server do with one request: the round trip
\* fails, or the server answers with a status and a body, of which the
\* client can read nread bytes, all of them unless readerr.
NoOutcome == [neterr |-> FALSE, status |-> 0, body |-> <<>>, readerr |-> FALSE, nread |-> 0]

Idle == [pc |-> "idle", op |-> "", args |-> <<>>, httpReq |-> NoRequest, nreq |-> 0,
         outcome |-> NoOutcome, ret |-> NotReturned]

\* The outcome of building a request: the operation returns at once with
\* ret, or it goes on to HTTPClient.Do with httpReq.
Fails(ret) == [failed |-> TRUE, ret |-> ret, httpReq |-> NoRequest]
Sends(req) == [failed |-> FALSE, ret |-> NotReturned, httpReq |-> req]

\* io.ReadAll(resp.Body): the bytes read, and whether the read failed.
ReadAll(o) == [data |-> SubSeq(o.body, 1, o.nread), err |-> o.readerr]

(***************************************************************************)
(* The operations.  For each one, <Op>Prepare is the code up to the call   *)
(* of HTTPClient.Do and <Op>Finish the code from its return on.  The error *)
(* texts are the program's, in English.                                    *)
(***************************************************************************)

\* Client.TTS
TTSPrepare(cl, req) ==
    LET jsonData == Marshal(TTSRequestFields, req)
        url == cl.BaseURL \o <<"/tts">>
        httpReq == NewRequestWithContext("POST", url, NewBuffer(jsonData.data))
    IN  IF jsonData.err
        THEN Fails(Returned(<<TTSResponse(0, <<>>, Errorf("request marshal failed", "marshal"))>>, Nil))
        ELSE IF httpReq.err
        THEN Fails(Returned(<<TTSResponse(0, <<>>, Errorf("create request failed", "url"))>>, Nil))
        ELSE Sends(HeaderSet(httpReq.req, "Content-Type", "application/json"))

\* TTSFinish with a response other than 200 reported as an error.
TTSFinish_StatusIsError(call, o) ==
    LET audioData == ReadAll(o) IN
    [call EXCEPT
        !.pc = "done",
        !.outcome = o,
        !.ret = IF o.neterr
                THEN Returned(<<TTSResponse(0, <<>>, Errorf("request failed", "net"))>>, Nil)
                ELSE IF audioData.err
                THEN Returned(<<TTSResponse(0, <<>>, Errorf("read response body failed", "read"))>>, Nil)
                ELSE IF o.status # StatusOK
                THEN Returned(<<TTSResponse(o.status, audioData.data,
                                            StatusErrorf("request failed, status code", o.status, audioData.data))>>, Nil)
                ELSE Returned(<<TTSResponse(o.status, audioData.data, Nil)>>, Nil)]

TTSFinish(call, o) ==
    LET audioData == ReadAll(o) IN
    [call EXCEPT
        !.pc = "done",
        !.outcome = o,
        !.ret = IF o.neterr
                THEN Returned(<<TTSResponse(0, <<>>, Errorf("request failed", "net"))>>, Nil)
                ELSE IF audioData.err
                THEN Returned(<<TTSResponse(0, <<>>, Errorf("read response body failed", "read"))>>, Nil)
                ELSE Returned(<<TTSResponse(o.status, audioData.data, Nil)>>, Nil)]

\* The zero TTSRequest, and the request Client.TTSSimple builds.
ZeroTTSRequest ==
    [n \in FieldNames(TTSRequestFields) |->
        ZeroOf(TTSRequestFields[CHOOSE i \in 1..Len(TTSRequestFields) : TTSRequestFields[i].name = n].kind)]

\* TTSSimpleRequest as the README's copy of the code has it: no split
\* method and no batch size.
TTSSimpleRequest_Readme(text, textLang, refAudioPath, promptLang, promptText) ==
    [ZeroTTSRequest EXCEPT
        !.Text = text,
        !.TextLang = textLang,
        !.RefAudioPath = refAudioPath,
        !.PromptLang = promptLang,
        !.PromptText = promptText,
        !.MediaType = <<"wav">>,
        !.StreamingMode = FALSE]

TTSSimpleRequest(text, textLang, refAudioPath, promptLang, promptText) ==
    [ZeroTTSRequest EXCEPT
        !.Text = text,
        !.TextLang = textLang,
        !.RefAudioPath = refAudioPath,
        !.PromptLang = promptLang,
        !.PromptText = promptText,
        !.TextSplitMethod = <<"cut5">>,
        !.BatchSize = 1,
        !.MediaType = <<"wav">>,
        !.StreamingMode = FALSE]

\* Client.Control
ControlPrepare(cl, command) ==
    LET controlReq == [Command |-> command]
        jsonData == Marshal(ControlRequestFields, controlReq)
        url == cl.BaseURL \o <<"/control">>
        httpReq == NewRequestWithContext("POST", url, NewBuffer(jsonData.data))
    IN  IF jsonData.err
        THEN Fails(Returned(<<>>, Errorf("control request marshal failed", "marshal")))
        ELSE IF httpReq.err
        THEN Fails(Returned(<<>>, Errorf("create control request failed", "url")))
        ELSE Sends(HeaderSet(httpReq.req, "Content-Type", "application/json"))

\* ControlFinish with every 2xx status taken for success.
ControlFinish_Any2xx(call, o) ==
    LET body == ReadAll(o).data IN
    [call EXCEPT
        !.pc = "done",
        !.outcome = o,
        !.ret = IF o.neterr
                THEN Returned(<<>>, Errorf("control request failed", "net"))
                ELSE IF o.status < 200 \/ o.status > 299
                THEN Returned(<<>>, StatusErrorf("control request failed, status code", o.status, body))
                ELSE Returned(<<>>, Nil)]

ControlFinish(call, o) ==
    LET body == ReadAll(o).data IN
    [call EXCEPT
        !.pc = "done",
        !.outcome = o,
        !.ret = IF o.neterr
                THEN Returned(<<>>, Errorf("control request failed", "net"))
                ELSE IF o.status # StatusOK /\ o.status # StatusNoContent
                THEN Returned(<<>>, StatusErrorf("control request failed, status code", o.status, body))
                ELSE Returned(<<>>, Nil)]

\* Client.SetGPTWeights
SetGPTWeightsPrepare(cl, weightsPath) ==
    LET weightsReq == [WeightsPath |-> weightsPath]
        jsonData == Marshal(SetWeightsRequestFields, weightsReq)
        url == cl.BaseURL \o <<"/set_gpt_weights">>
        httpReq == NewRequestWithContext("POST", url, NewBuffer(jsonData.data))
    IN  IF jsonData.err
        THEN Fails(Returned(<<>>, Errorf("weights request marshal failed", "marshal")))
        ELSE IF httpReq.err
        THEN Fails(Returned(<<>>, Errorf("create weights request failed", "url")))
        ELSE Sends(HeaderSet(httpReq.req, "Content-Type", "application/json"))

\* SetGPTWeightsFinish with the status check of Control (204 accepted).
SetGPTWeightsFinish_AcceptsNoContent(call, o) ==
    LET body == ReadAll(o).data IN
    [call EXCEPT
        !.pc = "done",
        !.outcome = o,
        !.ret = IF o.neterr
                THEN Returned(<<>>, Errorf("set GPT weights request failed", "net"))
                ELSE IF o.status # StatusOK /\ o.status # StatusNoContent
                THEN Returned(<<>>, StatusErrorf("set GPT weights failed, status code", o.status, body))
                ELSE Returned(<<>>, Nil)]

SetGPTWeightsFinish(call, o) ==
    LET body == ReadAll(o).data IN
    [call EXCEPT
        !.pc = "done",
        !.outcome = o,
        !.ret = IF o.neterr
                THEN Returned(<<>>, Errorf("set GPT weights request failed", "net"))
                ELSE IF o.status # StatusOK
                THEN Returned(<<>>, StatusErrorf("set GPT weights failed, status code", o.status, body))
                ELSE Returned(<<>>, Nil)]

\* Client.SetSoVITSWeights
\* SetSoVITSWeightsPrepare with the URL of SetGPTWeights.
SetSoVITSWeightsPrepare_GPTEndpoint(cl, weightsPath) ==
    LET weightsReq == [WeightsPath |-> weightsPath]
        jsonData == Marshal(SetWeightsRequestFields, weightsReq)
        url == cl.BaseURL \o <<"/set_gpt_weights">>
        httpReq == NewRequestWithContext("POST", url, NewBuffer(jsonData.data))
    IN  IF jsonData.err
        THEN Fails(Returned(<<>>, Errorf("weights request marshal failed", "marshal")))
        ELSE IF httpReq.err
        THEN Fails(Returned(<<>>, Errorf("create weights request failed", "url")))
        ELSE Sends(HeaderSet(httpReq.req, "Content-Type", "application/json"))

SetSoVITSWeightsPrepare(cl, weightsPath) ==
    LET weightsReq == [WeightsPath |-> weightsPath]
        jsonData == Marshal(SetWeightsRequestFields, weightsReq)
        url == cl.BaseURL \o <<"/set_sovits_weights">>
        httpReq == NewRequestWithContext("POST", url, NewBuffer(jsonData.data))
    IN  IF jsonData.err
        THEN Fails(Returned(<<>>, Errorf("weights request marshal failed", "marshal")))
        ELSE IF httpReq.err
        THEN Fails(Returned(<<>>, Errorf("create weights request failed", "url")))
        ELSE Sends(HeaderSet(httpReq.req, "Content-Type", "application/json"))

\* SetSoVITSWeightsFinish without the check of the status.
SetSoVITSWeightsFinish_NoStatusCheck(call, o) ==
    [call EXCEPT
        !.pc = "done",
        !.outcome = o,
        !.ret = IF o.neterr
                THEN Returned(<<>>, Errorf("set SoVITS weights request failed", "net"))
                ELSE Returned(<<>>, Nil)]

SetSoVITSWeightsFinish(call, o) ==
    LET body == ReadAll(o).data IN
    [call EXCEPT
        !.pc = "done",
        !.outcome = o,
        !.ret = IF o.neterr
                THEN Returned(<<>>, Errorf("set SoVITS weights request failed", "net"))
                ELSE IF o.status # StatusOK
                THEN Returned(<<>>, StatusErrorf("set SoVITS weights failed, status code", o.status, body))
                ELSE Returned(<<>>, Nil)]

\* Client.GetTTSWithURLParams.  params is a map from keys to values; order
\* is the order in which this range over the map yields its keys.
\* The loop as it would be without the cut of the last '&'.
RECURSIVE GetTTSWithURLParamsQuery_NoTrim(_, _, _)
GetTTSWithURLParamsQuery_NoTrim(params, order, query) ==
    IF order = <<>>
    THEN query
    ELSE GetTTSWithURLParamsQuery_NoTrim(params, Tail(order),
             query \o Head(order) \o <<"=">> \o params[Head(order)] \o <<"&">>)
RECURSIVE GetTTSWithURLParamsQuery(_, _, _)
GetTTSWithURLParamsQuery(params, order, query) ==
    IF order = <<>>
    THEN IF Len(query) > 1 THEN SubSeq(query, 1, Len(query) - 1) ELSE query
    ELSE GetTTSWithURLParamsQuery(params, Tail(order),
             query \o Head(order) \o <<"=">> \o params[Head(order)] \o <<"&">>)

GetTTSWithURLParamsPrepare(cl, params, order) ==
    LET url == cl.BaseURL \o <<"/tts">> \o GetTTSWithURLParamsQuery(params, order, <<"?">>)
        httpReq == NewRequestWithContext("GET", url, NoBody)
    IN  IF httpReq.err
        THEN Fails(Returned(<<TTSResponse(0, <<>>, Errorf("create request failed", "url"))>>, Nil))
        ELSE Sends(httpReq.req)

\* The return as it would be if a failed read kept the status and the
\* bytes read so far next to the Error.
GetTTSWithURLParamsFinish_PartialOnReadError(call, o) ==
    LET audioData == ReadAll(o) IN
    [call EXCEPT
        !.pc = "done",
        !.outcome = o,
        !.ret = IF o.neterr
                THEN Returned(<<TTSResponse(0, <<>>, Errorf("request failed", "net"))>>, Nil)
                ELSE IF audioData.err
                THEN Returned(<<TTSResponse(o.status, audioData.data,
                                            Errorf("read response body failed", "read"))>>, Nil)
                ELSE Returned(<<TTSResponse(o.status, audioData.data, Nil)>>, Nil)]
GetTTSWithURLParamsFinish(call, o) ==
    LET audioData == ReadAll(o) IN
    [call EXCEPT
        !.pc = "done",
        !.outcome = o,
        !.ret = IF o.neterr
                THEN Returned(<<TTSResponse(0, <<>>, Errorf("request failed", "net"))>>, Nil)
                ELSE IF audioData.err
                THEN Returned(<<TTSResponse(0, <<>>, Errorf("read response body failed", "read"))>>, Nil)
                ELSE Returned(<<TTSResponse(o.status, audioData.data, Nil)>>, Nil)]

\* Client.ControlWithGet
ControlWithGetPrepare(cl, command) ==
    LET url == cl.BaseURL \o <<"/control">> \o <<"?">> \o <<"command">> \o <<"=">> \o command
        httpReq == NewRequestWithContext("GET", url, NoBody)
    IN  IF httpReq.err
        THEN Fails(Returned(<<>>, Errorf("create control request failed", "url")))
        ELSE Sends(httpReq.req)

ControlWithGetFinish(call, o) ==
    LET body == ReadAll(o).data IN
    [call EXCEPT
        !.pc = "done",
        !.outcome = o,
        !.ret = IF o.neterr
                THEN Returned(<<>>, Errorf("control request failed", "net"))
                ELSE IF o.status # StatusOK /\ o.status # StatusNoContent
                THEN Returned(<<>>, StatusErrorf("control request failed, status code", o.status, body))
                ELSE Returned(<<>>, Nil)]

\* Client.SetGPTWeightsWithGet
SetGPTWeightsWithGetPrepare(cl, weightsPath) ==
    LET url == cl.BaseURL \o <<"/set_gpt_weights">> \o <<"?">> \o <<"weights_path">> \o <<"=">> \o weightsPath
        httpReq == NewRequestWithContext("GET", url, NoBody)
    IN  IF httpReq.err
        THEN Fails(Returned(<<>>, Errorf("create weights request failed", "url")))
        ELSE Sends(httpReq.req)

\* SetGPTWeightsWithGetFinish sending the request again when the round
\* trip failed.
SetGPTWeightsWithGetFinish_Retry(call, o) ==
    LET body == ReadAll(o).data IN
    IF o.neterr
    THEN [call EXCEPT !.nreq = @ + 1]
    ELSE [call EXCEPT
            !.pc = "done",
            !.outcome = o,
            !.ret = IF o.status # StatusOK
                    THEN Returned(<<>>, StatusErrorf("set GPT weights failed, status code", o.status, body))
                    ELSE Returned(<<>>, Nil)]

SetGPTWeightsWithGetFinish(call, o) ==
    LET body == ReadAll(o).data IN
    [call EXCEPT
        !.pc = "done",
        !.outcome = o,
        !.ret = IF o.neterr
                THEN Returned(<<>>, Errorf("set GPT weights request failed", "net"))
                ELSE IF o.status # StatusOK
                THEN Returned(<<>>, StatusErrorf("set GPT weights failed, status code", o.status, body))
                ELSE Returned(<<>>, Nil)]

\* Client.SetSoVITSWeightsWithGet
SetSoVITSWeightsWithGetPrepare(cl, weightsPath) ==
    LET url == cl.BaseURL \o <<"/set_sovits_weights">> \o <<"?">> \o <<"weights_path">> \o <<"=">> \o weightsPath
        httpReq == NewRequestWithContext("GET", url, NoBody)
    IN  IF httpReq.err
        THEN Fails(Returned(<<>>, Errorf("create weights request failed", "url")))
        ELSE Sends(httpReq.req)

SetSoVITSWeightsWithGetFinish(call, o) ==
    LET body == ReadAll(o).data IN
    [call EXCEPT
        !.pc = "done",
        !.outcome = o,
        !.ret = IF o.neterr
                THEN Returned(<<>>, Errorf("set SoVITS weights request failed", "net"))
                ELSE IF o.status # StatusOK
                THEN Returned(<<>>, StatusErrorf("set SoVITS weights failed, status code", o.status, body))
                ELSE Returned(<<>>, Nil)]

(***************************************************************************)
(* The inputs the callers draw from, and the answers of the network.       *)
(***************************************************************************)
GoodBaseURL == <<"http://127.0.0.1:9880">>
BaseURLs == {GoodBaseURL, <<"http://127.0.0.1", LF>>}

Hello == <<"hello">>
NiHao == <<"<U+4F60>", "<U+597D>">>
Restart == <<"restart">>
Exit == <<"exit">>

FullTTSRequest ==
    [Text |-> Hello, TextLang |-> <<"en">>, RefAudioPath |-> <<"ref.wav">>,
     AuxRefAudioPaths |-> Slice(<< <<"aux1.wav">>, <<"aux", "&", "2.wav">> >>),
     PromptText |-> NiHao, PromptLang |-> <<"zh">>,
     TopK |-> 5, TopP |-> "1", Temperature |-> "0.9", TextSplitMethod |-> <<"cut0">>,
     BatchSize |-> 2, BatchThreshold |-> "0.75", SplitBucket |-> TRUE,
     SpeedFactor |-> "1.1", FragmentInterval |-> "0.3", Seed |-> -1,
     MediaType |-> <<"ogg">>, StreamingMode |-> FALSE, ParallelInfer |-> TRUE,
     RepetitionPenalty |-> "1.35", SampleSteps |-> 32, SuperSampling |-> FALSE]

TTSTexts ==
    {Hello, NiHao, <<DQ, "hi", BS, "n", DQ>>, <<"a", "&", "b", "<", "c">>, <<"a", LF, "b">>,
     <<"a", BadByte>>, <<>>}

TTSRequests ==
    {ZeroTTSRequest, FullTTSRequest}
    \cup {[FullTTSRequest EXCEPT !.Text = s] : s \in TTSTexts}
    \cup {[FullTTSRequest EXCEPT !.PromptText = s] : s \in TTSTexts}
    \cup {[FullTTSRequest EXCEPT !.AuxRefAudioPaths = a] : a \in {NilSlice, Slice(<<>>), Slice(<< <<BadByte>> >>)}}
    \cup {[FullTTSRequest EXCEPT !.SplitBucket = FALSE, !.StreamingMode = TRUE],
          [FullTTSRequest EXCEPT !.ParallelInfer = FALSE, !.StreamingMode = TRUE],
          [FullTTSRequest EXCEPT !.Temperature = "NaN"]}

Langs == {<<"zh">>, <<"en">>}
SimpleTexts == {Hello, NiHao, <<"a", "&", "b">>}
RefAudioPaths == {<<"ref.wav">>, <<>>}

Commands ==
    {Restart, Exit, NiHao, <<"restart", "&", "x", "=", "1">>, <<"exit", "#", "now">>,
     <<"restart", LF>>, <<"a", " ", "b">>, <<"a", "+", "b">>, <<"a", "?", "b">>,
     <<"%", "4", "1">>, <<"re", "=", "start">>}

WeightsPaths ==
    {<<"GPT_SoVITS/pretrained_models/s2G488k.pth">>,
     <<"GPT_SoVITS/pretrained_models/s1bert25hz-2kh-longer-epoch", "=", "68e-step", "=", "50232.ckpt">>,
     <<"models/a", "&", "b.ckpt">>, <<"models/", "<U+4F60>", ".pth">>, <<"models/a", "#", "1.pth">>,
     <<"models/a", LF>>}

ParamKeys == {<<"text">>, <<"text_lang">>, <<"prompt_text">>}
ParamValues == {Hello, NiHao, <<"a", "&", "b">>, <<"a", "#", "b">>}
ParamMaps ==
    UNION {[K -> ParamValues] : K \in {K \in SUBSET ParamKeys : Cardinality(K) <= MaxParams}}
\* The orders in which a range over a map with the keys K can yield them.
Orders(K) ==
    {s \in [1..Cardinality(K) -> K] : \A i, j \in 1..Cardinality(K) : i # j => s[i] # s[j]}

Statuses == {200, 201, 204, 400, 500}
Bytes == {82, 73}
Bodies == UNION {[1..n -> Bytes] : n \in 0..MaxBodyLen}
Outcomes ==
    {[neterr |-> TRUE, status |-> 0, body |-> <<>>, readerr |-> FALSE, nread |-> 0]}
    \cup {o \in [neterr : {FALSE}, status : Statuses, body : Bodies, readerr : BOOLEAN,
                 nread : 0..MaxBodyLen] :
            o.nread <= Len(o.body) /\ (o.readerr \/ o.nread = Len(o.body))}

(***************************************************************************)
(* The state machine.  A caller that is idle calls an operation, which     *)
(* builds its request and hands it to HTTPClient.Do (pc = "do") or returns *)
(* at once (pc = "done"); HTTPClient.Do returns with the outcome of the    *)
(* round trip and the operation runs to its return (pc = "done"); the      *)
(* caller takes the result and is idle again.                              *)
(***************************************************************************)
Init ==
    /\ client \in {NewClient(b) : b \in BaseURLs}
    /\ calls = [c \in 1..1 |-> Idle]

\* A call as it would be if the operation set the timeout of the shared
\* HTTPClient for its own request.
Enter_SetsTimeout(c, op, args, p) ==
    /\ calls' = [calls EXCEPT ![c] =
                    [pc |-> IF p.failed THEN "done" ELSE "do",
                     op |-> op,
                     args |-> args,
                     httpReq |-> p.httpReq,
                     nreq |-> IF p.failed THEN 0 ELSE 1,
                     outcome |-> NoOutcome,
                     ret |-> p.ret]]
    /\ client' = [client EXCEPT !.HTTPClient.Timeout = 0]

\* The operation op, called with args, has run up to HTTPClient.Do.
Enter(c, op, args, p) ==
    /\ calls' = [calls EXCEPT ![c] =
                    [pc |-> IF p.failed THEN "done" ELSE "do",
                     op |-> op,
                     args |-> args,
                     httpReq |-> p.httpReq,
                     nreq |-> IF p.failed THEN 0 ELSE 1,
                     outcome |-> NoOutcome,
                     ret |-> p.ret]]
    /\ UNCHANGED client

IsIdle(c) == calls[c].pc = "idle"
InDo(c, ops) == calls[c].pc = "do" /\ calls[c].op \in ops

TTS(c) ==
    /\ IsIdle(c)
    /\ \E req \in TTSRequests : Enter(c, "TTS", <<req>>, TTSPrepare(client, req))

\* TTSSimple builds its request and calls TTS with it.
TTSSimple(c) ==
    /\ IsIdle(c)
    /\ \E text \in SimpleTexts, textLang \in Langs, refAudioPath \in RefAudioPaths,
          promptLang \in Langs, promptText \in SimpleTexts :
            Enter(c, "TTSSimple", <<text, textLang, refAudioPath, promptLang, promptText>>,
                  TTSPrepare(client, TTSSimpleRequest(text, textLang, refAudioPath, promptLang, promptText)))

TTSReturn(c) ==
    /\ InDo(c, {"TTS", "TTSSimple"})
    /\ \E o \in Outcomes : calls' = [calls EXCEPT ![c] = TTSFinish(@, o)]
    /\ UNCHANGED client

GetTTSWithURLParams(c) ==
    /\ IsIdle(c)
    /\ \E params \in ParamMaps : \E order \in Orders(DOMAIN params) :
            Enter(c, "GetTTSWithURLParams", <<params, order>>,
                  GetTTSWithURLParamsPrepare(client, params, order))

GetTTSWithURLParamsReturn(c) ==
    /\ InDo(c, {"GetTTSWithURLParams"})
    /\ \E o \in Outcomes : calls' = [calls EXCEPT ![c] = GetTTSWithURLParamsFinish(@, o)]
    /\ UNCHANGED client

Control(c) ==
    /\ IsIdle(c)
    /\ \E command \in Commands : Enter(c, "Control", <<command>>, ControlPrepare(client, command))

ControlReturn(c) ==
    /\ InDo(c, {"Control"})
    /\ \E o \in Outcomes : calls' = [calls EXCEPT ![c] = ControlFinish(@, o)]
    /\ UNCHANGED client

SetGPTWeights(c) ==
    /\ IsIdle(c)
    /\ \E weightsPath \in WeightsPaths : Enter(c, "SetGPTWeights", <<weightsPath>>, SetGPTWeightsPrepare(client, weightsPath))

SetGPTWeightsReturn(c) ==
    /\ InDo(c, {"SetGPTWeights"})
    /\ \E o \in Outcomes : calls' = [calls EXCEPT ![c] = SetGPTWeightsFinish(@, o)]
    /\ UNCHANGED client

SetSoVITSWeights(c) ==
    /\ IsIdle(c)
    /\ \E weightsPath \in WeightsPaths : Enter(c, "SetSoVITSWeights", <<weightsPath>>, SetSoVITSWeightsPrepare(client, weightsPath))

SetSoVITSWeightsReturn(c) ==
    /\ InDo(c, {"SetSoVITSWeights"})
    /\ \E o \in Outcomes : calls' = [calls EXCEPT ![c] = SetSoVITSWeightsFinish(@, o)]
    /\ UNCHANGED client

ControlWithGet(c) ==
    /\ IsIdle(c)
    /\ \E command \in Commands : Enter(c, "ControlWithGet", <<command>>, ControlWithGetPrepare(client, command))

ControlWithGetReturn(c) ==
    /\ InDo(c, {"ControlWithGet"})
    /\ \E o \in Outcomes : calls' = [calls EXCEPT ![c] = ControlWithGetFinish(@, o)]
    /\ UNCHANGED client

SetGPTWeightsWithGet(c) ==
    /\ IsIdle(c)
    /\ \E weightsPath \in WeightsPaths : Enter(c, "SetGPTWeightsWithGet", <<weightsPath>>, SetGPTWeightsWithGetPrepare(client, weightsPath))

SetGPTWeightsWithGetReturn(c) ==
    /\ InDo(c, {"SetGPTWeightsWithGet"})
    /\ \E o \in Outcomes : calls' = [calls EXCEPT ![c] = SetGPTWeightsWithGetFinish(@, o)]
    /\ UNCHANGED client

SetSoVITSWeightsWithGet(c) ==
    /\ IsIdle(c)
    /\ \E weightsPath \in WeightsPaths : Enter(c, "SetSoVITSWeightsWithGet", <<weightsPath>>, SetSoVITSWeightsWithGetPrepare(client, weightsPath))

SetSoVITSWeightsWithGetReturn(c) ==
    /\ InDo(c, {"SetSoVITSWeightsWithGet"})
    /\ \E o \in Outcomes : calls' = [calls EXCEPT ![c] = SetSoVITSWeightsWithGetFinish(@, o)]
    /\ UNCHANGED client

\* The caller has taken the result of its call and may call again.
Resume(c) ==
    /\ calls[c].pc = "done"
    /\ calls' = [calls EXCEPT ![c] = Idle]
    /\ UNCHANGED client

Next ==
    \/ \E c \in DOMAIN calls : TTS(c)
    \/ \E c \in DOMAIN calls : TTSSimple(c)
    \/ \E c \in DOMAIN calls : TTSReturn(c)
    \/ \E c \in DOMAIN calls : Control(c)
    \/ \E c \in DOMAIN calls : ControlReturn(c)
    \/ \E c \in DOMAIN calls : SetGPTWeights(c)
    \/ \E c \in DOMAIN calls : SetGPTWeightsReturn(c)
    \/ \E c \in DOMAIN calls : SetSoVITSWeights(c)
    \/ \E c \in DOMAIN calls : SetSoVITSWeightsReturn(c)
    \/ \E c \in DOMAIN calls : GetTTSWithURLParams(c)
    \/ \E c \in DOMAIN calls : GetTTSWithURLParamsReturn(c)
    \/ \E c \in DOMAIN calls : ControlWithGet(c)
    \/ \E c \in DOMAIN calls : ControlWithGetReturn(c)
    \/ \E c \in DOMAIN calls : SetGPTWeightsWithGet(c)
    \/ \E c \in DOMAIN calls : SetGPTWeightsWithGetReturn(c)
    \/ \E c \in DOMAIN calls : SetSoVITSWeightsWithGet(c)
    \/ \E c \in DOMAIN calls : SetSoVITSWeightsWithGetReturn(c)
    \/ \E c \in DOMAIN calls : Resume(c)

Spec == Init /\ [][Next]_vars

(***************************************************************************)
(* Properties.                                                             *)
(***************************************************************************)
TTSOps == {"TTS", "TTSSimple", "GetTTSWithURLParams"}
ControlOps == {"Control", "ControlWithGet"}
WeightsOps == {"SetGPTWeights", "SetSoVITSWeights", "SetGPTWeightsWithGet", "SetSoVITSWeightsWithGet"}

\* The call of caller c has returned, after a request was handed to HTTPClient.Do.
Answered(c) == calls[c].pc = "done" /\ calls[c].nreq = 1
\* The server answered and, if the body was read, it was read to its end.
ReadWhole(c) == ~calls[c].outcome.neterr /\ ~calls[c].outcome.readerr
\* The bytes of the response body that io.ReadAll delivered.
BytesRead(c) == SubSeq(calls[c].outcome.body, 1, calls[c].outcome.nread)

\* C1: when the round trip and the read of the body succeed, TTS (called
\* directly or by TTSSimple) returns a nil error and a result whose
\* StatusCode is the server's status, whatever it is, whose AudioData is
\* the server's body byte for byte, and whose Error is unset.
C1_TTSPassesStatusAndBody ==
    \A c \in DOMAIN calls :
        (Answered(c) /\ calls[c].op \in {"TTS", "TTSSimple"} /\ ReadWhole(c)) =>
            /\ calls[c].ret.err = Nil
            /\ Len(calls[c].ret.resp) = 1
            /\ calls[c].ret.resp[1].StatusCode = calls[c].outcome.status
            /\ calls[c].ret.resp[1].AudioData = calls[c].outcome.body
            /\ calls[c].ret.resp[1].Error = Nil

\* A TTS call answered with status 400 and a body of two bytes, which it
\* returned as they were.
C1_Witness ==
    \E c \in DOMAIN calls :
        /\ Answered(c) /\ calls[c].op = "TTS" /\ ReadWhole(c)
        /\ calls[c].outcome.status = 400
        /\ calls[c].outcome.body = <<82, 73>>
        /\ calls[c].ret = Returned(<<TTSResponse(400, <<82, 73>>, Nil)>>, Nil)

\* C2 as stated: Control and ControlWithGet return nil exactly when the
\* round trip succeeded with status 200 or 204, and for every other status
\* the error carries the status and the response body.
C2_Original ==
    \A c \in DOMAIN calls :
        (calls[c].pc = "done" /\ calls[c].op \in ControlOps) =>
            /\ (calls[c].ret.err = Nil) <=>
                    (calls[c].nreq = 1 /\ ~calls[c].outcome.neterr
                        /\ calls[c].outcome.status \in {200, 204})
            /\ (calls[c].nreq = 1 /\ ~calls[c].outcome.neterr
                    /\ calls[c].outcome.status \notin {200, 204}) =>
                  /\ calls[c].ret.err.status = calls[c].outcome.status
                  /\ calls[c].ret.err.body = calls[c].outcome.body

\* C2, amended: Control and ControlWithGet return nil exactly when the
\* round trip succeeded with status 200 or 204; for every other status the
\* error carries the status and the bytes of the body that could be read,
\* which are the whole body when the read does not fail.
C2_ControlSuccessIff200Or204 ==
    \A c \in DOMAIN calls :
        (calls[c].pc = "done" /\ calls[c].op \in ControlOps) =>
            /\ (calls[c].ret.err = Nil) <=>
                    (calls[c].nreq = 1 /\ ~calls[c].outcome.neterr
                        /\ calls[c].outcome.status \in {200, 204})
            /\ (calls[c].nreq = 1 /\ ~calls[c].outcome.neterr
                    /\ calls[c].outcome.status \notin {200, 204}) =>
                  /\ calls[c].ret.err.status = calls[c].outcome.status
                  /\ calls[c].ret.err.body = BytesRead(c)
                  /\ ~calls[c].outcome.readerr => calls[c].ret.err.body = calls[c].outcome.body

\* A control command answered with 201 Created: an error that carries 201
\* and the body.
C2_Witness ==
    \E c \in DOMAIN calls :
        /\ Answered(c) /\ calls[c].op = "ControlWithGet" /\ ReadWhole(c)
        /\ calls[c].outcome.status = 201
        /\ calls[c].outcome.body = <<73, 82>>
        /\ calls[c].ret.err = StatusErrorf("control request failed, status code", 201, <<73, 82>>)

\* C3 as stated: the four weights operations return nil exactly when the
\* round trip succeeded with status 200, and for every other status the
\* error carries the status and the response body.
C3_Original ==
    \A c \in DOMAIN calls :
        (calls[c].pc = "done" /\ calls[c].op \in WeightsOps) =>
            /\ (calls[c].ret.err = Nil) <=>
                    (calls[c].nreq = 1 /\ ~calls[c].outcome.neterr /\ calls[c].outcome.status = 200)
            /\ (calls[c].nreq = 1 /\ ~calls[c].outcome.neterr /\ calls[c].outcome.status # 200) =>
                  /\ calls[c].ret.err.status = calls[c].outcome.status
                  /\ calls[c].ret.err.body = calls[c].outcome.body

\* C3, amended: the four weights operations return nil exactly when the
\* round trip succeeded with status 200; for every other status (204 and
\* 400 among them) the error carries the status and the bytes of the body
\* that could be read, which are the whole body when the read does not fail.
C3_WeightsSuccessIff200 ==
    \A c \in DOMAIN calls :
        (calls[c].pc = "done" /\ calls[c].op \in WeightsOps) =>
            /\ (calls[c].ret.err = Nil) <=>
                    (calls[c].nreq = 1 /\ ~calls[c].outcome.neterr /\ calls[c].outcome.status = 200)
            /\ (calls[c].nreq = 1 /\ ~calls[c].outcome.neterr /\ calls[c].outcome.status # 200) =>
                  /\ calls[c].ret.err.status = calls[c].outcome.status
                  /\ calls[c].ret.err.body = BytesRead(c)
                  /\ ~calls[c].outcome.readerr => calls[c].ret.err.body = calls[c].outcome.body

\* SetGPTWeights answered with 400 and a body: an error that carries both.
C3_Witness ==
    \E c \in DOMAIN calls :
        /\ Answered(c) /\ calls[c].op = "SetGPTWeights" /\ ReadWhole(c)
        /\ calls[c].outcome.status = 400
        /\ calls[c].outcome.body = <<82, 73>>
        /\ calls[c].ret.err = StatusErrorf("set GPT weights failed, status code", 400, <<82, 73>>)

\* The TTSRequest C4 describes for the five arguments a of TTSSimple.
SimpleExpected(a) ==
    [Text |-> a[1], TextLang |-> a[2], RefAudioPath |-> a[3],
     AuxRefAudioPaths |-> NilSlice,
     PromptText |-> a[5], PromptLang |-> a[4],
     TopK |-> 0, TopP |-> "0", Temperature |-> "0", TextSplitMethod |-> <<"cut5">>,
     BatchSize |-> 1, BatchThreshold |-> "0", SplitBucket |-> FALSE,
     SpeedFactor |-> "0", FragmentInterval |-> "0", Seed |-> 0,
     MediaType |-> <<"wav">>, StreamingMode |-> FALSE, ParallelInfer |-> FALSE,
     RepetitionPenalty |-> "0", SampleSteps |-> 0, SuperSampling |-> FALSE]

ReportsSuccess(c) ==
    IF calls[c].op \in TTSOps
    THEN calls[c].ret.err = Nil /\ Len(calls[c].ret.resp) = 1 /\ calls[c].ret.resp[1].Error = Nil
    ELSE calls[c].ret.err = Nil

Non2xx(c) == ~calls[c].outcome.neterr /\ calls[c].outcome.status \notin 200..299

\* C5 as stated: in every operation, a call whose round trip fails or whose
\* response status is outside 200-299 never reports success.
C5_Original ==
    \A c \in DOMAIN calls :
        (Answered(c) /\ (calls[c].outcome.neterr \/ Non2xx(c))) => ~ReportsSuccess(c)

\* C5, amended: a call whose round trip fails never reports success, in any
\* operation; a control or weights call whose response status is outside
\* 200-299 never reports success; a TTS, TTSSimple or GetTTSWithURLParams
\* call whose response status is outside 200-299 and whose body is read
\* reports success, with that status and body in the result.
C5_FailuresSurfaced ==
    \A c \in DOMAIN calls :
        Answered(c) =>
            /\ calls[c].outcome.neterr => ~ReportsSuccess(c)
            /\ (Non2xx(c) /\ calls[c].op \notin TTSOps) => ~ReportsSuccess(c)
            /\ (Non2xx(c) /\ calls[c].op \in TTSOps /\ ~calls[c].outcome.readerr) =>
                  /\ ReportsSuccess(c)
                  /\ calls[c].ret.resp[1].StatusCode = calls[c].outcome.status
                  /\ calls[c].ret.resp[1].AudioData = calls[c].outcome.body

\* SetSoVITSWeights answered with 400: an error.
C5_Witness ==
    \E c \in DOMAIN calls :
        /\ Answered(c) /\ calls[c].op = "SetSoVITSWeights"
        /\ ~calls[c].outcome.neterr /\ calls[c].outcome.status = 400
        /\ calls[c].ret.err # Nil

\* C6: no operation retries.  A call hands at most one request to
\* HTTPClient.Do, and when that returns, whatever the outcome, the
\* operation returns without another request.
C6_NoRetry ==
    [][\A c \in DOMAIN calls :
          /\ calls'[c].nreq <= 1
          /\ calls[c].pc = "do" => (calls'[c].pc = "done" /\ calls'[c].nreq = calls[c].nreq)
          /\ (calls[c].pc = "done" /\ calls'[c].pc # "idle") => calls'[c] = calls[c]]_vars

\* A call whose round trip failed has returned, one request sent.
C6_Witness ==
    \E c \in DOMAIN calls :
        /\ Answered(c) /\ calls[c].op = "SetGPTWeights"
        /\ calls[c].outcome.neterr
        /\ calls[c].ret.err = Errorf("set GPT weights request failed", "net")

\* The command the server observes in the request of a control call: the
\* "command" member of the JSON body (POST), the "command" query parameter (GET).
ObservedCommand(req) ==
    IF req.Method = "POST" THEN ServerBodyString(req, "command") ELSE ServerParam(req, <<"command">>)

\* C7: for the commands "restart" and "exit", the command the server
\* observes from Control and the one it observes from ControlWithGet are
\* the same string, the caller's argument.
C7_SameCommand ==
    \A c \in DOMAIN calls :
        (calls[c].op \in ControlOps /\ calls[c].nreq = 1 /\ calls[c].args[1] \in {Restart, Exit}) =>
            LET command == calls[c].args[1]
                post == ObservedCommand(ControlPrepare(client, command).httpReq)
                get == ObservedCommand(ControlWithGetPrepare(client, command).httpReq)
            IN  /\ ObservedCommand(calls[c].httpReq) = [found |-> TRUE, value |-> command]
                /\ calls[c].httpReq = (IF calls[c].op = "Control"
                                       THEN ControlPrepare(client, command).httpReq
                                       ELSE ControlWithGetPrepare(client, command).httpReq)
                /\ post = get

\* Control sent "exit" in a JSON body and the server read "exit" from it.
C7_Witness ==
    \E c \in DOMAIN calls :
        /\ calls[c].op = "Control" /\ calls[c].pc = "do" /\ calls[c].args = <<Exit>>
        /\ calls[c].httpReq.Method = "POST"
        /\ ObservedCommand(calls[c].httpReq) = [found |-> TRUE, value |-> Exit]

\* The key/value pairs the caller of a GET operation supplied, in the
\* order in which the operation wrote them.
Supplied(c) ==
    CASE calls[c].op = "GetTTSWithURLParams" ->
            [i \in 1..Len(calls[c].args[2]) |->
                <<calls[c].args[2][i], calls[c].args[1][calls[c].args[2][i]]>>]
      [] calls[c].op = "ControlWithGet" -> << <<<<"command">>, calls[c].args[1]>> >>
      [] OTHER -> << <<<<"weights_path">>, calls[c].args[1]>> >>

GetOps == {"GetTTSWithURLParams", "ControlWithGet", "SetGPTWeightsWithGet", "SetSoVITSWeightsWithGet"}

\* C8: from the request of a GET operation the server decodes exactly the
\* key/value pairs the caller supplied, whatever characters they hold.
C8_QuerySafe ==
    \A c \in DOMAIN calls :
        (calls[c].op \in GetOps /\ calls[c].nreq = 1) => ServerQuery(calls[c].httpReq) = Supplied(c)

\* A TTSRequest that json.Marshal and JSON can carry: text that is UTF-8,
\* numbers that are finite.
ValidTTSRequest(req) ==
    /\ \A i \in 1..Len(TTSRequestFields) :
          LET f == TTSRequestFields[i] IN
          /\ f.kind = "string" => ValidUTF8(req[f.name])
          /\ f.kind = "float" => req[f.name] \notin {"NaN", "+Inf", "-Inf"}
    /\ \A i \in 1..Len(req.AuxRefAudioPaths.elems) : ValidUTF8(req.AuxRefAudioPaths.elems[i])

\* C9 without its condition: the round trip of any TTSRequest TTS sends.
RoundTripOfAny ==
    \A c \in DOMAIN calls :
        (calls[c].op = "TTS" /\ calls[c].nreq = 1) =>
            Unmarshal(TTSRequestFields, calls[c].httpReq.Body.data) = calls[c].args[1]

\* C9: the JSON body TTS sends for a valid TTSRequest, deserialized into a
\* TTSRequest, gives back the request in every field; the body has one
\* member for each of the 22 fields and no two members share a key.
C9_RoundTrip ==
    \A c \in DOMAIN calls :
        (calls[c].op = "TTS" /\ calls[c].nreq = 1 /\ ValidTTSRequest(calls[c].args[1])) =>
            LET data == calls[c].httpReq.Body.data IN
            /\ Unmarshal(TTSRequestFields, data) = calls[c].args[1]
            /\ Len(data) = 22
            /\ Cardinality({data[i].key : i \in 1..Len(data)}) = 22

\* TTS sent a request whose text holds quotes and a backslash, with every
\* field set, and the body reads back as that request.
C9_Witness ==
    \E c \in DOMAIN calls :
        /\ calls[c].op = "TTS" /\ calls[c].pc = "do"
        /\ calls[c].args[1] = [FullTTSRequest EXCEPT !.Text = <<DQ, "hi", BS, "n", DQ>>]
        /\ Unmarshal(TTSRequestFields, calls[c].httpReq.Body.data) = calls[c].args[1]

\* The method and the endpoint of each operation.
Endpoint(op) ==
    CASE op \in {"TTS", "TTSSimple"} -> <<"POST", "/tts">>
      [] op = "GetTTSWithURLParams" -> <<"GET", "/tts">>
      [] op = "Control" -> <<"POST", "/control">>
      [] op = "ControlWithGet" -> <<"GET", "/control">>
      [] op = "SetGPTWeights" -> <<"POST", "/set_gpt_weights">>
      [] op = "SetGPTWeightsWithGet" -> <<"GET", "/set_gpt_weights">>
      [] op = "SetSoVITSWeights" -> <<"POST", "/set_sovits_weights">>
      [] op = "SetSoVITSWeightsWithGet" -> <<"GET", "/set_sovits_weights">>

RECURSIVE JoinedPairs(_, _)
JoinedPairs(params, order) ==
    IF order = <<>> THEN <<>>
    ELSE LET n == Len(order)
             last == order[n] \o <<"=">> \o params[order[n]]
         IN  IF n = 1 THEN last
             ELSE JoinedPairs(params, SubSeq(order, 1, n - 1)) \o <<"&">> \o last

\* The URL a parsed URL was written as (one with a non-empty fragment, or none).
Written(u) ==
    u.Path
    \o (IF u.ForceQuery \/ u.RawQuery # <<>> THEN <<"?">> \o u.RawQuery ELSE <<>>)
    \o (IF u.Fragment # <<>> THEN <<"#">> \o u.Fragment ELSE <<>>)

\* Text that no step between the caller and the server's decoder changes.
Plain(s) == \A i \in 1..Len(s) : s[i] \notin {"&", "=", "#", "?", "%", "+", " ", LF}

\* C12: whatever the order in which the map is iterated, the URL of
\* GetTTSWithURLParams is {base}/tts, '?', and every pair of the map once
\* as key=value, with one '&' between pairs and none at the end; for the
\* empty map the requested URL is {base}/tts followed by a bare '?'.
C12_QueryFlattening ==
    \A c \in DOMAIN calls :
        (calls[c].op = "GetTTSWithURLParams" /\ calls[c].pc # "idle") =>
            LET params == calls[c].args[1]
                order == calls[c].args[2]
                u == calls[c].httpReq.URL
            IN  /\ GetTTSWithURLParamsQuery(params, order, <<"?">>)
                      = <<"?">> \o JoinedPairs(params, order)
                /\ calls[c].nreq = 1 =>
                      /\ Written(u) = client.BaseURL \o <<"/tts", "?">> \o JoinedPairs(params, order)
                      /\ DOMAIN params = {} => RequestURI(u) = client.BaseURL \o <<"/tts", "?">>
                      /\ (\A k \in DOMAIN params : Plain(k) /\ Plain(params[k])) =>
                            /\ Len(ServerQuery(calls[c].httpReq)) = Cardinality(DOMAIN params)
                            /\ \A k \in DOMAIN params :
                                  \E i \in 1..Len(ServerQuery(calls[c].httpReq)) :
                                      ServerQuery(calls[c].httpReq)[i] = <<k, params[k]>>

\* GetTTSWithURLParams sent a map of two pairs, iterated with text_lang
\* first, as text_lang=...&text=hello.
C12_Witness ==
    \E c \in DOMAIN calls :
        /\ calls[c].op = "GetTTSWithURLParams" /\ calls[c].pc = "do" /\ calls[c].nreq = 1
        /\ calls[c].args[2] = << <<"text_lang">>, <<"text">> >>
        /\ calls[c].httpReq.URL.RawQuery
              = <<"text_lang", "=">> \o NiHao \o <<"&", "text", "=">> \o Hello

\* GetTTSWithURLParams sent the empty map: {base}/tts and a bare '?'.
C12_WitnessEmpty ==
    \E c \in DOMAIN calls :
        /\ calls[c].op = "GetTTSWithURLParams" /\ calls[c].pc = "do" /\ calls[c].nreq = 1
        /\ DOMAIN calls[c].args[1] = {}
        /\ RequestURI(calls[c].httpReq.URL) = GoodBaseURL \o <<"/tts", "?">>

\* The call failed before a response body was in hand: no request could be
\* built, the round trip failed, or the read of the body failed.
FailedEarly(c) == calls[c].nreq = 0 \/ calls[c].outcome.neterr \/ calls[c].outcome.readerr

\* C13: TTS, TTSSimple and GetTTSWithURLParams always return a result that
\* is not nil and a nil error; the result has Error set, StatusCode 0 and
\* no AudioData when the call failed (serialization, request creation,
\* transport, read of the body), and Error unset, the server's status and
\* the body read otherwise; never an Error together with a status or a body.
C13_ResultShapes ==
    \A c \in DOMAIN calls :
        (calls[c].pc = "done" /\ calls[c].op \in TTSOps) =>
            /\ calls[c].ret.err = Nil
            /\ Len(calls[c].ret.resp) = 1
            /\ LET r == calls[c].ret.resp[1] IN
               IF FailedEarly(c)
               THEN r.Error # Nil /\ r.StatusCode = 0 /\ r.AudioData = <<>>
               ELSE /\ r.Error = Nil
                    /\ r.StatusCode = calls[c].outcome.status
                    /\ r.AudioData = BytesRead(c)
                    /\ r.AudioData = calls[c].outcome.body

\* GetTTSWithURLParams was answered with 200 and two bytes, and the read
\* failed after the first: Error set, no status, no data.
C13_Witness ==
    \E c \in DOMAIN calls :
        /\ Answered(c) /\ calls[c].op = "GetTTSWithURLParams"
        /\ calls[c].outcome.status = 200 /\ calls[c].outcome.body = <<82, 73>>
        /\ calls[c].outcome.readerr /\ calls[c].outcome.nread = 1
        /\ calls[c].ret = Returned(<<TTSResponse(0, <<>>, Errorf("read response body failed", "read"))>>, Nil)

(***************************************************************************)
(* Several callers sharing one Client.  Each caller is a goroutine that    *)
(* calls the operations of the same *Client; a step of the machine is a    *)
(* step of one caller, so the behaviours are the interleavings of the      *)
(* callers' calls and returns.  The inputs are a few of those above.       *)
(***************************************************************************)
NumCallers == 2

SharedTTSRequests == {FullTTSRequest, [FullTTSRequest EXCEPT !.Temperature = "NaN"]}
SharedParamMaps == {p \in ParamMaps : DOMAIN p \subseteq {<<"text">>} /\ \A k \in DOMAIN p : p[k] = Hello}
SharedCommands == {Restart, <<"restart", LF>>}
SharedWeightsPaths == {<<"GPT_SoVITS/pretrained_models/s2G488k.pth">>}
SharedOutcomes ==
    {o \in Outcomes :
        \/ o.neterr
        \/ o.status = 200 /\ o.body = <<82>> /\ o.nread = 1 /\ ~o.readerr
        \/ o.status = 500 /\ o.body = <<73>> /\ o.nread = 1 /\ ~o.readerr}

InitShared ==
    /\ client \in {NewClient(b) : b \in BaseURLs}
    /\ calls = [c \in 1..NumCallers |-> Idle]

TTS_Shared(c) ==
    /\ IsIdle(c)
    /\ \E req \in SharedTTSRequests : Enter(c, "TTS", <<req>>, TTSPrepare(client, req))

TTSSimple_Shared(c) ==
    /\ IsIdle(c)
    /\ Enter(c, "TTSSimple", <<Hello, <<"en">>, <<"ref.wav">>, <<"zh">>, NiHao>>,
             TTSPrepare(client, TTSSimpleRequest(Hello, <<"en">>, <<"ref.wav">>, <<"zh">>, NiHao)))

TTSReturn_Shared(c) ==
    /\ InDo(c, {"TTS", "TTSSimple"})
    /\ \E o \in SharedOutcomes : calls' = [calls EXCEPT ![c] = TTSFinish(@, o)]
    /\ UNCHANGED client

GetTTSWithURLParams_Shared(c) ==
    /\ IsIdle(c)
    /\ \E params \in SharedParamMaps : \E order \in Orders(DOMAIN params) :
            Enter(c, "GetTTSWithURLParams", <<params, order>>,
                  GetTTSWithURLParamsPrepare(client, params, order))

GetTTSWithURLParamsReturn_Shared(c) ==
    /\ InDo(c, {"GetTTSWithURLParams"})
    /\ \E o \in SharedOutcomes : calls' = [calls EXCEPT ![c] = GetTTSWithURLParamsFinish(@, o)]
    /\ UNCHANGED client

Control_Shared(c) ==
    /\ IsIdle(c)
    /\ \E command \in SharedCommands : Enter(c, "Control", <<command>>, ControlPrepare(client, command))

ControlReturn_Shared(c) ==
    /\ InDo(c, {"Control"})
    /\ \E o \in SharedOutcomes : calls' = [calls EXCEPT ![c] = ControlFinish(@, o)]
    /\ UNCHANGED client

SetGPTWeights_Shared(c) ==
    /\ IsIdle(c)
    /\ \E weightsPath \in SharedWeightsPaths :
            Enter(c, "SetGPTWeights", <<weightsPath>>, SetGPTWeightsPrepare(client, weightsPath))

SetGPTWeightsReturn_Shared(c) ==
    /\ InDo(c, {"SetGPTWeights"})
    /\ \E o \in SharedOutcomes : calls' = [calls EXCEPT ![c] = SetGPTWeightsFinish(@, o)]
    /\ UNCHANGED client

SetSoVITSWeights_Shared(c) ==
    /\ IsIdle(c)
    /\ \E weightsPath \in SharedWeightsPaths :
            Enter(c, "SetSoVITSWeights", <<weightsPath>>, SetSoVITSWeightsPrepare(client, weightsPath))

SetSoVITSWeightsReturn_Shared(c) ==
    /\ InDo(c, {"SetSoVITSWeights"})
    /\ \E o \in SharedOutcomes : calls' = [calls EXCEPT ![c] = SetSoVITSWeightsFinish(@, o)]
    /\ UNCHANGED client

ControlWithGet_Shared(c) ==
    /\ IsIdle(c)
    /\ \E command \in SharedCommands :
            Enter(c, "ControlWithGet", <<command>>, ControlWithGetPrepare(client, command))

ControlWithGetReturn_Shared(c) ==
    /\ InDo(c, {"ControlWithGet"})
    /\ \E o \in SharedOutcomes : calls' = [calls EXCEPT ![c] = ControlWithGetFinish(@, o)]
    /\ UNCHANGED client

SetGPTWeightsWithGet_Shared(c) ==
    /\ IsIdle(c)
    /\ \E weightsPath \in SharedWeightsPaths :
            Enter(c, "SetGPTWeightsWithGet", <<weightsPath>>, SetGPTWeightsWithGetPrepare(client, weightsPath))

SetGPTWeightsWithGetReturn_Shared(c) ==
    /\ InDo(c, {"SetGPTWeightsWithGet"})
    /\ \E o \in SharedOutcomes : calls' = [calls EXCEPT ![c] = SetGPTWeightsWithGetFinish(@, o)]
    /\ UNCHANGED client

SetSoVITSWeightsWithGet_Shared(c) ==
    /\ IsIdle(c)
    /\ \E weightsPath \in SharedWeightsPaths :
            Enter(c, "SetSoVITSWeightsWithGet", <<weightsPath>>, SetSoVITSWeightsWithGetPrepare(client, weightsPath))

SetSoVITSWeightsWithGetReturn_Shared(c) ==
    /\ InDo(c, {"SetSoVITSWeightsWithGet"})
    /\ \E o \in SharedOutcomes : calls' = [calls EXCEPT ![c] = SetSoVITSWeightsWithGetFinish(@, o)]
    /\ UNCHANGED client

NextShared ==
    \/ \E c \in DOMAIN calls : TTS_Shared(c)
    \/ \E c \in DOMAIN calls : TTSSimple_Shared(c)
    \/ \E c \in DOMAIN calls : TTSReturn_Shared(c)
    \/ \E c \in DOMAIN calls : Control_Shared(c)
    \/ \E c \in DOMAIN calls : ControlReturn_Shared(c)
    \/ \E c \in DOMAIN calls : SetGPTWeights_Shared(c)
    \/ \E c \in DOMAIN calls : SetGPTWeightsReturn_Shared(c)
    \/ \E c \in DOMAIN calls : SetSoVITSWeights_Shared(c)
    \/ \E c \in DOMAIN calls : SetSoVITSWeightsReturn_Shared(c)
    \/ \E c \in DOMAIN calls : GetTTSWithURLParams_Shared(c)
    \/ \E c \in DOMAIN calls : GetTTSWithURLParamsReturn_Shared(c)
    \/ \E c \in DOMAIN calls : ControlWithGet_Shared(c)
    \/ \E c \in DOMAIN calls : ControlWithGetReturn_Shared(c)
    \/ \E c \in DOMAIN calls : SetGPTWeightsWithGet_Shared(c)
    \/ \E c \in DOMAIN calls : SetGPTWeightsWithGetReturn_Shared(c)
    \/ \E c \in DOMAIN calls : SetSoVITSWeightsWithGet_Shared(c)
    \/ \E c \in DOMAIN calls : SetSoVITSWeightsWithGetReturn_Shared(c)
    \/ \E c \in DOMAIN calls : Resume(c)

SpecShared == InitShared /\ [][NextShared]_vars

\* What the operation op, called with args on the client cl, does up to
\* HTTPClient.Do, and what it returns once HTTPClient.Do has returned with o.
PrepareOf(cl, op, args) ==
    CASE op = "TTS" -> TTSPrepare(cl, args[1])
      [] op = "TTSSimple" ->
            TTSPrepare(cl, TTSSimpleRequest(args[1], args[2], args[3], args[4], args[5]))
      [] op = "GetTTSWithURLParams" -> GetTTSWithURLParamsPrepare(cl, args[1], args[2])
      [] op = "Control" -> ControlPrepare(cl, args[1])
      [] op = "SetGPTWeights" -> SetGPTWeightsPrepare(cl, args[1])
      [] op = "SetSoVITSWeights" -> SetSoVITSWeightsPrepare(cl, args[1])
      [] op = "ControlWithGet" -> ControlWithGetPrepare(cl, args[1])
      [] op = "SetGPTWeightsWithGet" -> SetGPTWeightsWithGetPrepare(cl, args[1])
      [] op = "SetSoVITSWeightsWithGet" -> SetSoVITSWeightsWithGetPrepare(cl, args[1])

FinishOf(call, o) ==
    CASE call.op \in {"TTS", "TTSSimple"} -> TTSFinish(call, o)
      [] call.op = "GetTTSWithURLParams" -> GetTTSWithURLParamsFinish(call, o)
      [] call.op = "Control" -> ControlFinish(call, o)
      [] call.op = "SetGPTWeights" -> SetGPTWeightsFinish(call, o)
      [] call.op = "SetSoVITSWeights" -> SetSoVITSWeightsFinish(call, o)
      [] call.op = "ControlWithGet" -> ControlWithGetFinish(call, o)
      [] call.op = "SetGPTWeightsWithGet" -> SetGPTWeightsWithGetFinish(call, o)
      [] call.op = "SetSoVITSWeightsWithGet" -> SetSoVITSWeightsWithGetFinish(call, o)

\* The call of op with args on the client cl, from its start to its return,
\* when the answer to its own request (if it sends one) is o.
Alone(cl, op, args, o) ==
    LET p == PrepareOf(cl, op, args)
        entered == [pc |-> IF p.failed THEN "done" ELSE "do", op |-> op, args |-> args,
                    httpReq |-> p.httpReq, nreq |-> IF p.failed THEN 0 ELSE 1,
                    outcome |-> NoOutcome, ret |-> p.ret]
    IN  IF p.failed THEN entered ELSE FinishOf(entered, o)

\* C11: whatever the interleaving of the callers sharing the client, no
\* step writes the client's BaseURL or HTTPClient, a step of one caller
\* leaves the calls of the others as they are, and a call that has
\* returned has returned what the same call returns when it runs alone on
\* the client and gets the same answer to its own request.
C11_Independent ==
    [][/\ client' = client
       /\ \A c \in DOMAIN calls :
            calls'[c] # calls[c] =>
                /\ \A d \in DOMAIN calls \ {c} : calls'[d] = calls[d]
                /\ calls'[c].pc = "done" =>
                      calls'[c] = Alone(client, calls'[c].op, calls'[c].args, calls'[c].outcome)]_vars

\* Two callers made the same call at the same time; one has returned with
\* the transport's error while the request of the other is still with
\* HTTPClient.Do.
C11_Witness ==
    \E c, d \in DOMAIN calls :
        /\ c # d
        /\ calls[c].op = "ControlWithGet" /\ calls[d].op = "ControlWithGet"
        /\ calls[c].args = <<Restart>> /\ calls[d].args = <<Restart>>
        /\ calls[c].pc = "done" /\ calls[c].outcome.neterr
        /\ calls[c].ret.err = Errorf("control request failed", "net")
        /\ calls[d].pc = "do"

====
